---- MODULE Spec2Model ----
(***************************************************************************)
(* Model of egs/gigaspeech/context_ASR/zipformer/asr_datamodule.py:        *)
(* GigaSpeechAsrDataModule (memoized cut accessors, dataloader factories)  *)
(* and the worker initializer _SeedWorkers.                                *)
(*                                                                         *)
(* Python objects are records carrying an "id" (their identity); a keyword *)
(* call is recorded as the record of exactly the keywords the call site    *)
(* passes, so a keyword that is not passed is absent from "kwargs".        *)
(***************************************************************************)
EXTENDS Integers, Sequences, FiniteSets, TLC

\* ------------------------------------------------------------------ bounds
\* Total number of accessor calls (train_cuts/dev_cuts/test_cuts) in a run.
MaxCalls == 3
\* Total number of dataloader-factory calls in a run.
MaxLoaders == 2
\* Largest progress saved in a sampler_state_dict; a sampler is followed one
\* batch beyond it.
MaxProgress == 1
\* The DEV manifest holds SmallDevFirst cuts, or DevSlack fewer, or DevSlack
\* more.
DevSlack == 1
\* Base seeds 0 .. MaxBaseSeed are tried on a directly built _SeedWorkers.
MaxBaseSeed == 2
\* Worker ids 0 .. MaxWorkerId are tried on a directly built _SeedWorkers.
MaxWorkerId == 2

\* ------------------------------------------------------- program constants
\* functools.lru_cache() default maxsize
LruMaxSize == 128
\* cuts_valid.subset(first=1000)
SmallDevFirst == 1000

\* The DataModule instances of the process (the key "self" of the caches).
Modules == {"dm1", "dm2"}
\* --subset help: (XS|S|M|L|XL)
Subsets == {"XS", "S", "M", "L", "XL"}
\* The three lru_cache-decorated accessors.
Accessors == {"train_cuts", "dev_cuts", "test_cuts"}

\* Python's None.
None == [kind |-> "None"]
\* Ghost value: the accessor has not been called on the module yet.
NotCalled == [kind |-> "NotCalled"]

VARIABLES
    args,         \* args[self]: the argparse namespace of DataModule self
    manifestLen,  \* manifestLen[name]: number of cuts in manifest file name
    libDefaultFrameMasks, \* default of DiscretizedInputAugment num_frame_masks
    cache,        \* cache[fn]: the lru_cache of accessor fn, oldest first
    heap,         \* heap[id]: datasets, samplers and loaders built so far
    rng,          \* rng[proc]: the seed last fixed in process proc
    nextId,       \* next fresh object identity
    ret,          \* the last operation and the value it returned
    trace,        \* the library calls the last operation made, in order
    first,        \* ghost: first[fn][self], value of the first call of fn
    ncalls,       \* ghost: number of accessor calls made
    nfactory      \* ghost: number of dataloader-factory calls made

vars == <<args, manifestLen, libDefaultFrameMasks, cache, heap, rng, nextId,
          ret, trace, first, ncalls, nfactory>>

Min(a, b) == IF a <= b THEN a ELSE b

\* ------------------------------------------------------------ add_arguments
\* The defaults declared by add_arguments.
DefaultArgs ==
    [manifest_dir |-> "data/fbank",
     max_duration |-> 1000,
     bucketing_sampler |-> TRUE,
     num_buckets |-> 30,
     shuffle |-> TRUE,
     drop_last |-> TRUE,
     return_cuts |-> TRUE,
     num_workers |-> 2,
     enable_spec_aug |-> TRUE,
     spec_aug_time_warp_factor |-> 80,
     enable_gaussian_noise |-> TRUE,
     input_strategy |-> "AudioSamples",
     subset |-> "M",
     small_dev |-> FALSE]

\* ------------------------------------------------------------ manifest files
\* The file names the accessors load, with the subset/split and the speed
\* perturbation their fixed naming encodes.
ManifestNaming ==
    [n \in {"gigaspeech_cuts_M_future.jsonl.gz",
            "gigaspeech_cuts_M-sp0_9_future.jsonl.gz",
            "gigaspeech_cuts_M-sp1_1_future.jsonl.gz",
            "gigaspeech_cuts_XL.jsonl.gz",
            "gigaspeech_cuts_XL-sp0_9.jsonl.gz",
            "gigaspeech_cuts_XL-sp1_1.jsonl.gz",
            "gigaspeech_cuts_DEV_future.jsonl.gz",
            "gigaspeech_cuts_TEST_future.jsonl.gz"} |->
        CASE n = "gigaspeech_cuts_M_future.jsonl.gz" -> [part |-> "M", sp |-> "1.0"]
          [] n = "gigaspeech_cuts_M-sp0_9_future.jsonl.gz" -> [part |-> "M", sp |-> "0.9"]
          [] n = "gigaspeech_cuts_M-sp1_1_future.jsonl.gz" -> [part |-> "M", sp |-> "1.1"]
          [] n = "gigaspeech_cuts_XL.jsonl.gz" -> [part |-> "XL", sp |-> "1.0"]
          [] n = "gigaspeech_cuts_XL-sp0_9.jsonl.gz" -> [part |-> "XL", sp |-> "0.9"]
          [] n = "gigaspeech_cuts_XL-sp1_1.jsonl.gz" -> [part |-> "XL", sp |-> "1.1"]
          [] n = "gigaspeech_cuts_DEV_future.jsonl.gz" -> [part |-> "DEV", sp |-> "1.0"]
          [] n = "gigaspeech_cuts_TEST_future.jsonl.gz" -> [part |-> "TEST", sp |-> "1.0"]]

ManifestNames == DOMAIN ManifestNaming

\* The cuts of a manifest file in file order; a cut is named by its position.
ReadManifest(path) == [i \in 1..manifestLen[path[2]] |-> i]

\* -------------------------------------------------------------- lhotse CutSet
\* One library call of an operation: the function and the object it built or
\* acted on.
Ev(fn, id) == [fn |-> fn, id |-> id]

\* load_manifest_lazy(path): a lazy CutSet that reads path when iterated.
load_manifest_lazy(path, id) == [kind |-> "lazy", id |-> id, path |-> path]

\* The cuts a CutSet yields, in order (not modelled for a mux, whose order is random).
CutsOf(cs) ==
    CASE cs.kind = "lazy" -> ReadManifest(cs.path)
      [] cs.kind = "eager" -> cs.cuts
      [] OTHER -> <<>>

\* Mutant: the subset keeps the last n cuts instead of the first n.
CutSet_subset_last(cs, n, id) ==
    [kind |-> "eager", id |-> id,
     cuts |-> SubSeq(CutsOf(cs), Len(CutsOf(cs)) - Min(n, Len(CutsOf(cs))) + 1,
                     Len(CutsOf(cs)))]

\* CutSet.subset(first=n): an eager CutSet of the first n cuts (all of them
\* when there are fewer than n).
CutSet_subset(cs, n, id) ==
    [kind |-> "eager", id |-> id,
     cuts |-> SubSeq(CutsOf(cs), 1, Min(n, Len(CutsOf(cs))))]

\* CutSet.mux(*cut_sets, weights=...)
CutSet_mux(sources, weights, id) ==
    [kind |-> "mux", id |-> id, sources |-> sources, weights |-> weights]

\* self.args.manifest_dir / name
ManifestPath(self, name) == <<args[self].manifest_dir, name>>

\* ----------------------------------------------------------------- accessors
\* A body's outcome: the value returned, the library calls made, and the next
\* fresh identity.
Outcome(value, calls, next) == [value |-> value, trace |-> calls, next |-> next]

\* Mutant: the second branch is a bare else and loads a copy-pasted file list,
\* so every subset other than "M" resolves to manifests and the "XL" mux draws
\* its unperturbed stream from the "M" manifest.
train_cuts_body_else(self, id) ==
    IF args[self].subset = "M"
    THEN LET train_cuts_ == load_manifest_lazy(
                 ManifestPath(self, "gigaspeech_cuts_M_future.jsonl.gz"), id)
             train_cuts_sp_0_9 == load_manifest_lazy(
                 ManifestPath(self, "gigaspeech_cuts_M-sp0_9_future.jsonl.gz"), id + 1)
             train_cuts_sp_1_1 == load_manifest_lazy(
                 ManifestPath(self, "gigaspeech_cuts_M-sp1_1_future.jsonl.gz"), id + 2)
         IN  Outcome(CutSet_mux(<<train_cuts_, train_cuts_sp_0_9, train_cuts_sp_1_1>>,
                                <<909401, 909401, 909401>>, id + 3),
                     <<Ev("load_manifest_lazy", id), Ev("load_manifest_lazy", id + 1),
                       Ev("load_manifest_lazy", id + 2), Ev("CutSet.mux", id + 3)>>,
                     id + 4)
    ELSE LET train_cuts_ == load_manifest_lazy(
                 ManifestPath(self, "gigaspeech_cuts_M_future.jsonl.gz"), id)
             train_cuts_sp_0_9 == load_manifest_lazy(
                 ManifestPath(self, "gigaspeech_cuts_XL-sp0_9.jsonl.gz"), id + 1)
             train_cuts_sp_1_1 == load_manifest_lazy(
                 ManifestPath(self, "gigaspeech_cuts_XL-sp1_1.jsonl.gz"), id + 2)
         IN  Outcome(CutSet_mux(<<train_cuts_, train_cuts_sp_0_9, train_cuts_sp_1_1>>,
                                <<8277188, 8277188, 8277188>>, id + 3),
                     <<Ev("load_manifest_lazy", id), Ev("load_manifest_lazy", id + 1),
                       Ev("load_manifest_lazy", id + 2), Ev("CutSet.mux", id + 3)>>,
                     id + 4)

\* The body of train_cuts (below its lru_cache decorator): the "M" branch, the
\* "XL" branch, and the implicit return None when neither matches.
train_cuts_body(self, id) ==
    IF args[self].subset = "M"
    THEN LET train_cuts_ == load_manifest_lazy(
                 ManifestPath(self, "gigaspeech_cuts_M_future.jsonl.gz"), id)
             train_cuts_sp_0_9 == load_manifest_lazy(
                 ManifestPath(self, "gigaspeech_cuts_M-sp0_9_future.jsonl.gz"), id + 1)
             train_cuts_sp_1_1 == load_manifest_lazy(
                 ManifestPath(self, "gigaspeech_cuts_M-sp1_1_future.jsonl.gz"), id + 2)
         IN  Outcome(CutSet_mux(<<train_cuts_, train_cuts_sp_0_9, train_cuts_sp_1_1>>,
                                <<909401, 909401, 909401>>, id + 3),
                     <<Ev("load_manifest_lazy", id), Ev("load_manifest_lazy", id + 1),
                       Ev("load_manifest_lazy", id + 2), Ev("CutSet.mux", id + 3)>>,
                     id + 4)
    ELSE IF args[self].subset = "XL"
    THEN LET train_cuts_ == load_manifest_lazy(
                 ManifestPath(self, "gigaspeech_cuts_XL.jsonl.gz"), id)
             train_cuts_sp_0_9 == load_manifest_lazy(
                 ManifestPath(self, "gigaspeech_cuts_XL-sp0_9.jsonl.gz"), id + 1)
             train_cuts_sp_1_1 == load_manifest_lazy(
                 ManifestPath(self, "gigaspeech_cuts_XL-sp1_1.jsonl.gz"), id + 2)
         IN  Outcome(CutSet_mux(<<train_cuts_, train_cuts_sp_0_9, train_cuts_sp_1_1>>,
                                <<8277188, 8277188, 8277188>>, id + 3),
                     <<Ev("load_manifest_lazy", id), Ev("load_manifest_lazy", id + 1),
                       Ev("load_manifest_lazy", id + 2), Ev("CutSet.mux", id + 3)>>,
                     id + 4)
    ELSE Outcome(None, <<>>, id)

\* The body of dev_cuts.
dev_cuts_body(self, id) ==
    LET cuts_valid ==
            load_manifest_lazy(
                ManifestPath(self, "gigaspeech_cuts_DEV_future.jsonl.gz"), id)
    IN  IF args[self].small_dev
        THEN Outcome(CutSet_subset(cuts_valid, SmallDevFirst, id + 1),
                     <<Ev("load_manifest_lazy", id), Ev("CutSet.subset", id + 1)>>,
                     id + 2)
        ELSE Outcome(cuts_valid, <<Ev("load_manifest_lazy", id)>>, id + 1)

\* The body of test_cuts.
test_cuts_body(self, id) ==
    Outcome(load_manifest_lazy(
                ManifestPath(self, "gigaspeech_cuts_TEST_future.jsonl.gz"), id),
            <<Ev("load_manifest_lazy", id)>>, id + 1)

\* Mutant: the lookup never matches, as if the decorator were missing.
LruHits_never(c, key) == {}

\* Positions of key in an lru_cache.
LruHits(c, key) == {i \in 1..Len(c) : c[i].key = key}

\* c without its i-th entry.
LruRemove(c, i) == SubSeq(c, 1, i - 1) \o SubSeq(c, i + 1, Len(c))

\* functools.lru_cache() around a method: the cache of fn is keyed by self; a
\* hit returns the stored value and makes the entry the most recent one, a
\* miss runs the body, stores its value and evicts the oldest entry when the
\* cache is full.
lru_cache(fn, self, body) ==
    LET c == cache[fn]
        hits == LruHits(c, self)
        hit == hits # {}
        i == CHOOSE j \in hits : TRUE
        value == IF hit THEN c[i].value ELSE body.value
    IN  /\ ncalls < MaxCalls
        /\ ncalls' = ncalls + 1
        /\ cache' = [cache EXCEPT ![fn] =
                IF hit
                THEN Append(LruRemove(c, i), c[i])
                ELSE Append(IF Len(c) >= LruMaxSize THEN Tail(c) ELSE c,
                            [key |-> self, value |-> value])]
        /\ trace' = IF hit THEN <<>> ELSE body.trace
        /\ nextId' = IF hit THEN nextId ELSE body.next
        /\ ret' = [op |-> fn, self |-> self, input |-> None, value |-> value,
                   repeat |-> first[fn][self] # NotCalled]
        /\ first' = IF first[fn][self] = NotCalled
                    THEN [first EXCEPT ![fn][self] = value]
                    ELSE first
        /\ UNCHANGED <<args, manifestLen, libDefaultFrameMasks, heap, rng, nfactory>>

train_cuts(self) == lru_cache("train_cuts", self, train_cuts_body(self, nextId))

dev_cuts(self) == lru_cache("dev_cuts", self, dev_cuts_body(self, nextId))

test_cuts(self) == lru_cache("test_cuts", self, test_cuts_body(self, nextId))

\* ------------------------------------------------------------- _SeedWorkers
\* _SeedWorkers.__init__(seed)
_SeedWorkers(seed) == [kind |-> "_SeedWorkers", seed |-> seed]

\* Mutant: the worker id is dropped, every worker gets the base seed.
SeedWorkers_call_base_only(sw, worker_id) == sw.seed

\* _SeedWorkers.__call__(worker_id): fix_random_seed(self.seed + worker_id);
\* the value is the seed the calling process is left with.
SeedWorkers_call(sw, worker_id) == sw.seed + worker_id

\* ------------------------------------------------------- dataloader factories
\* A library object built by a keyword call.
New(kind, id, kwargs) == [kind |-> kind, id |-> id, kwargs |-> kwargs]

\* A lhotse sampler over cuts; it starts at progress 0.
Sampler(kind, id, cuts, kwargs) ==
    [kind |-> kind, id |-> id, cuts |-> cuts.id, kwargs |-> kwargs, progress |-> 0]

\* sampler.load_state_dict(state_dict): the sampler resumes at the saved
\* progress.
load_state_dict(sampler, state_dict) ==
    [sampler EXCEPT !.progress = state_dict.progress]

\* torch DataLoader(dataset, **kwargs)
DataLoader(id, dataset, kwargs) ==
    [kind |-> "DataLoader", id |-> id, dataset |-> dataset.id, kwargs |-> kwargs]

\* A factory body's outcome: the loader returned, the objects it put on the
\* heap, the library calls made, and the next fresh identity.
Built(value, objs, calls, next) ==
    [value |-> value, objs |-> objs, trace |-> calls, next |-> next]

\* A step of a body: the value it yields and the library calls it made.
Step(value, calls) == [value |-> value, trace |-> calls]

\* Mutant: the transform is appended whether or not enable_spec_aug is set.
train_input_transforms_always(self, id) ==
    Step(<<New("DiscretizedInputAugment", id,
               [token_type |-> "wavlm",
                time_warp_factor |-> args[self].spec_aug_time_warp_factor,
                num_frame_masks |-> IF libDefaultFrameMasks = 1 THEN 2 ELSE 10,
                tokens_mask_size |-> 27,
                num_token_masks |-> 4,
                frames_mask_size |-> 100])>>,
         <<Ev("DiscretizedInputAugment", id)>>)

\* train_dataloaders, the input_transforms list: empty, or one
\* DiscretizedInputAugment whose num_frame_masks follows the library default.
train_input_transforms(self, id) ==
    IF args[self].enable_spec_aug
    THEN LET num_frame_masks == IF libDefaultFrameMasks = 1 THEN 2 ELSE 10
         IN  Step(<<New("DiscretizedInputAugment", id,
                        [token_type |-> "wavlm",
                         time_warp_factor |-> args[self].spec_aug_time_warp_factor,
                         num_frame_masks |-> num_frame_masks,
                         tokens_mask_size |-> 27,
                         num_token_masks |-> 4,
                         frames_mask_size |-> 100])>>,
                  <<Ev("DiscretizedInputAugment", id)>>)
    ELSE Step(<<>>, <<>>)

\* Mutant: the two sampler branches are swapped.
train_sampler_swapped(self, cuts_train, id) ==
    IF ~args[self].bucketing_sampler
    THEN Step(Sampler("DynamicBucketingSampler", id, cuts_train,
                      [max_duration |-> args[self].max_duration,
                       shuffle |-> args[self].shuffle,
                       num_buckets |-> args[self].num_buckets,
                       drop_last |-> args[self].drop_last]),
              <<Ev("Sampler", id)>>)
    ELSE Step(Sampler("SimpleCutSampler", id, cuts_train,
                      [max_duration |-> args[self].max_duration,
                       shuffle |-> args[self].shuffle]),
              <<Ev("Sampler", id)>>)

\* train_dataloaders, the sampler: DynamicBucketingSampler or SimpleCutSampler
\* with the keywords each call site passes.
train_sampler(self, cuts_train, id) ==
    IF args[self].bucketing_sampler
    THEN Step(Sampler("DynamicBucketingSampler", id, cuts_train,
                      [max_duration |-> args[self].max_duration,
                       shuffle |-> args[self].shuffle,
                       num_buckets |-> args[self].num_buckets,
                       drop_last |-> args[self].drop_last]),
              <<Ev("Sampler", id)>>)
    ELSE Step(Sampler("SimpleCutSampler", id, cuts_train,
                      [max_duration |-> args[self].max_duration,
                       shuffle |-> args[self].shuffle]),
              <<Ev("Sampler", id)>>)

\* Mutant: the state dict is loaded only into a DynamicBucketingSampler.
train_sampler_restore_bucketing_only(sampler, sampler_state_dict) ==
    IF sampler_state_dict # None /\ sampler.kind = "DynamicBucketingSampler"
    THEN Step(load_state_dict(sampler, sampler_state_dict),
              <<Ev("load_state_dict", sampler.id)>>)
    ELSE Step(sampler, <<>>)

\* train_dataloaders, the restore: a given sampler_state_dict is loaded into
\* the sampler just built.
train_sampler_restore(sampler, sampler_state_dict) ==
    IF sampler_state_dict # None
    THEN Step(load_state_dict(sampler, sampler_state_dict),
              <<Ev("load_state_dict", sampler.id)>>)
    ELSE Step(sampler, <<>>)

\* The body of train_dataloaders.
train_dataloaders_body(self, cuts_train, sampler_state_dict, id) ==
    LET input_transforms == train_input_transforms(self, id)
        id1 == id + Len(input_transforms.value)
        train == New("DiscretizedInputSpeechRecognitionDataset", id1,
                     [field |-> "discrete_tokens",
                      num_tokens |-> 2000,
                      frequency_size |-> 80,
                      token_type |-> "wavlm",
                      input_transforms |-> input_transforms.value])
        built == train_sampler(self, cuts_train, id1 + 1)
        restored == train_sampler_restore(built.value, sampler_state_dict)
        sampler == restored.value
        seed == 42
        worker_init_fn == _SeedWorkers(seed)
        train_dl == DataLoader(id1 + 2, train,
                               [sampler |-> sampler.id,
                                batch_size |-> None,
                                num_workers |-> args[self].num_workers,
                                persistent_workers |-> FALSE,
                                worker_init_fn |-> worker_init_fn])
    IN  Built(train_dl,
              (train.id :> train) @@ (sampler.id :> sampler) @@ (train_dl.id :> train_dl),
              input_transforms.trace \o <<Ev("Dataset", train.id)>> \o built.trace
                  \o restored.trace \o <<Ev("DataLoader", train_dl.id)>>,
              id1 + 3)

\* Mutant: the validation loader takes the configured worker count and shuffle
\* flag, as the training loader does.
valid_dataloaders_body_as_train(self, cuts_valid, id) ==
    LET validate == New("DiscretizedInputSpeechRecognitionDataset", id,
                        [field |-> "discrete_tokens",
                         num_tokens |-> 2000,
                         token_type |-> "wavlm"])
        valid_sampler == Sampler("DynamicBucketingSampler", id + 1, cuts_valid,
                                 [max_duration |-> args[self].max_duration,
                                  shuffle |-> args[self].shuffle])
        valid_dl == DataLoader(id + 2, validate,
                               [sampler |-> valid_sampler.id,
                                batch_size |-> None,
                                num_workers |-> args[self].num_workers,
                                persistent_workers |-> FALSE])
    IN  Built(valid_dl,
              (validate.id :> validate) @@ (valid_sampler.id :> valid_sampler)
                  @@ (valid_dl.id :> valid_dl),
              <<Ev("Dataset", validate.id), Ev("Sampler", valid_sampler.id),
                Ev("DataLoader", valid_dl.id)>>,
              id + 3)

\* The body of valid_dataloaders.
valid_dataloaders_body(self, cuts_valid, id) ==
    LET validate == New("DiscretizedInputSpeechRecognitionDataset", id,
                        [field |-> "discrete_tokens",
                         num_tokens |-> 2000,
                         token_type |-> "wavlm"])
        valid_sampler == Sampler("DynamicBucketingSampler", id + 1, cuts_valid,
                                 [max_duration |-> args[self].max_duration,
                                  shuffle |-> FALSE])
        valid_dl == DataLoader(id + 2, validate,
                               [sampler |-> valid_sampler.id,
                                batch_size |-> None,
                                num_workers |-> 2,
                                persistent_workers |-> FALSE])
    IN  Built(valid_dl,
              (validate.id :> validate) @@ (valid_sampler.id :> valid_sampler)
                  @@ (valid_dl.id :> valid_dl),
              <<Ev("Dataset", validate.id), Ev("Sampler", valid_sampler.id),
                Ev("DataLoader", valid_dl.id)>>,
              id + 3)

\* Mutant: the test sampler is kept and reused for a CutSet it was already
\* built for, so two loaders share one sampler.
test_dataloaders_body_shared(self, cuts, id) ==
    LET old == {i \in DOMAIN heap :
                    /\ heap[i].kind = "DynamicBucketingSampler"
                    /\ heap[i].cuts = cuts.id}
        test == New("DiscretizedInputSpeechRecognitionDataset", id,
                    [field |-> "discrete_tokens",
                     num_tokens |-> 2000,
                     token_type |-> "wavlm"])
        sampler == IF old # {}
                   THEN heap[CHOOSE i \in old : TRUE]
                   ELSE Sampler("DynamicBucketingSampler", id + 1, cuts,
                                [max_duration |-> args[self].max_duration,
                                 shuffle |-> FALSE])
        test_dl == DataLoader(id + 2, test,
                              [batch_size |-> None,
                               sampler |-> sampler.id,
                               num_workers |-> args[self].num_workers])
    IN  Built(test_dl,
              (test.id :> test) @@ (sampler.id :> sampler) @@ (test_dl.id :> test_dl),
              <<Ev("Dataset", test.id), Ev("Sampler", sampler.id),
                Ev("DataLoader", test_dl.id)>>,
              id + 3)

\* The body of test_dataloaders.
test_dataloaders_body(self, cuts, id) ==
    LET test == New("DiscretizedInputSpeechRecognitionDataset", id,
                    [field |-> "discrete_tokens",
                     num_tokens |-> 2000,
                     token_type |-> "wavlm"])
        sampler == Sampler("DynamicBucketingSampler", id + 1, cuts,
                           [max_duration |-> args[self].max_duration,
                            shuffle |-> FALSE])
        test_dl == DataLoader(id + 2, test,
                              [batch_size |-> None,
                               sampler |-> sampler.id,
                               num_workers |-> args[self].num_workers])
    IN  Built(test_dl,
              (test.id :> test) @@ (sampler.id :> sampler) @@ (test_dl.id :> test_dl),
              <<Ev("Dataset", test.id), Ev("Sampler", sampler.id),
                Ev("DataLoader", test_dl.id)>>,
              id + 3)

\* A call of a factory method: the body runs, its objects live on the heap and
\* the loader is returned; nothing is stored on the DataModule.
Factory(op, self, input, body) ==
    /\ nfactory < MaxLoaders
    /\ nfactory' = nfactory + 1
    /\ heap' = body.objs @@ heap
    /\ ret' = [op |-> op, self |-> self, input |-> input, value |-> body.value,
               repeat |-> FALSE]
    /\ trace' = body.trace
    /\ nextId' = body.next
    /\ UNCHANGED <<args, manifestLen, libDefaultFrameMasks, cache, rng, first, ncalls>>

train_dataloaders(self, cuts_train, sampler_state_dict) ==
    Factory("train_dataloaders", self,
            [cuts |-> cuts_train.id, sampler_state_dict |-> sampler_state_dict],
            train_dataloaders_body(self, cuts_train, sampler_state_dict, nextId))

valid_dataloaders(self, cuts_valid) ==
    Factory("valid_dataloaders", self, [cuts |-> cuts_valid.id],
            valid_dataloaders_body(self, cuts_valid, nextId))

test_dataloaders(self, cuts) ==
    Factory("test_dataloaders", self, [cuts |-> cuts.id],
            test_dataloaders_body(self, cuts, nextId))

\* The DataLoaders built so far.
Loaders == {id \in DOMAIN heap : heap[id].kind = "DataLoader"}

\* The worker processes of a loader and the seed its worker_init_fn fixes in
\* each: the loader calls worker_init_fn(worker_id) in worker worker_id of
\* 0 .. num_workers - 1; without a worker_init_fn nothing is fixed.
WorkerSeeds(dl) ==
    IF "worker_init_fn" \in DOMAIN dl.kwargs
    THEN [p \in {<<dl.id, w>> : w \in 0..(dl.kwargs.num_workers - 1)} |->
              SeedWorkers_call(dl.kwargs.worker_init_fn, p[2])]
    ELSE <<>>

\* Drawing the next batch from a loader: its workers are started (and seeded by
\* the worker_init_fn) and its sampler advances by one batch.
iter_loader(l) ==
    LET dl == heap[l]
        s == dl.kwargs.sampler
    IN  /\ heap[s].progress <= MaxProgress
        /\ heap' = [heap EXCEPT ![s].progress = @ + 1]
        /\ rng' = WorkerSeeds(dl) @@ rng
        /\ ret' = [op |-> "iter", self |-> l, input |-> None, value |-> None,
                   repeat |-> FALSE]
        /\ trace' = <<>>
        /\ UNCHANGED <<args, manifestLen, libDefaultFrameMasks, cache, nextId,
                       first, ncalls, nfactory>>

\* The main process, as a key of rng.
MainProcess == <<0, 0>>

\* _SeedWorkers(seed)(worker_id) called directly in the main process.
call_SeedWorkers(seed, worker_id) ==
    /\ rng' = (MainProcess :> SeedWorkers_call(_SeedWorkers(seed), worker_id)) @@ rng
    /\ ret' = [op |-> "_SeedWorkers", self |-> _SeedWorkers(seed),
               input |-> [worker_id |-> worker_id], value |-> None, repeat |-> FALSE]
    /\ trace' = <<>>
    /\ UNCHANGED <<args, manifestLen, libDefaultFrameMasks, cache, heap, nextId,
                   first, ncalls, nfactory>>

\* The CutSets the accessors have returned so far.
CutSets ==
    (UNION {{cache[fn][i].value : i \in 1..Len(cache[fn])} : fn \in Accessors})
        \ {None}

\* The sampler_state_dict arguments tried: None or a saved progress.
StateDicts ==
    {None} \cup {[kind |-> "state_dict", progress |-> p] : p \in 1..MaxProgress}

\* ---------------------------------------------------------------------- Init
\* GigaSpeechAsrDataModule.__init__ stores the namespace; nothing is loaded or
\* built yet.
InitState ==
    /\ cache = [fn \in Accessors |-> <<>>]
    /\ heap = <<>>
    /\ rng = <<>>
    /\ nextId = 1
    /\ ret = [op |-> "__init__", self |-> "dm1", input |-> None, value |-> None,
              repeat |-> FALSE]
    /\ trace = <<>>
    /\ first = [fn \in Accessors |-> [m \in Modules |-> NotCalled]]
    /\ ncalls = 0
    /\ nfactory = 0

DevLens == {SmallDevFirst - DevSlack, SmallDevFirst, SmallDevFirst + DevSlack}

\* Namespaces that differ from the defaults in the subset.
SubsetArgs == {[DefaultArgs EXCEPT !.subset = s] : s \in Subsets}

\* Namespaces that differ from the defaults in the small-dev flag.
SmallDevArgs == {[DefaultArgs EXCEPT !.small_dev = d] : d \in BOOLEAN}

\* The manifest files on disk: the DEV manifest has k cuts.
Manifests(k) ==
    [n \in ManifestNames |->
        IF n = "gigaspeech_cuts_DEV_future.jsonl.gz" THEN k ELSE 3]

\* Two DataModules in one process, with any subsets, or with any small-dev
\* flags over a DEV manifest around the truncation length.
InitCuts ==
    /\ \/ /\ args \in [Modules -> SubsetArgs]
          /\ manifestLen = Manifests(SmallDevFirst + DevSlack)
       \/ /\ args \in [Modules -> SmallDevArgs]
          /\ manifestLen \in {Manifests(k) : k \in DevLens}
    /\ libDefaultFrameMasks = 10
    /\ InitState

NextCuts ==
    \E self \in Modules :
        \/ train_cuts(self)
        \/ dev_cuts(self)
        \/ test_cuts(self)

SpecCuts == InitCuts /\ [][NextCuts]_vars

\* The DataModule whose factories are explored (they read only self.args).
LoaderModule == "dm1"

\* Namespaces that differ from the defaults in the options the factories read.
LoaderArgs ==
    {[DefaultArgs EXCEPT !.enable_spec_aug = aug, !.bucketing_sampler = b,
                         !.shuffle = sh, !.drop_last = dl, !.num_workers = nw] :
        aug \in BOOLEAN, b \in BOOLEAN, sh \in BOOLEAN, dl \in BOOLEAN,
        nw \in {1, 3}}
    \cup {[DefaultArgs EXCEPT !.max_duration = 600, !.num_buckets = 50,
                              !.bucketing_sampler = b] : b \in BOOLEAN}

InitLoaders ==
    /\ args \in {[m \in Modules |-> IF m = LoaderModule THEN a ELSE DefaultArgs] :
                    a \in LoaderArgs}
    /\ manifestLen = Manifests(SmallDevFirst + DevSlack)
    /\ libDefaultFrameMasks \in {1, 10}
    /\ InitState

NextLoaders ==
    \/ train_cuts(LoaderModule)
    \/ \E cuts \in CutSets, sd \in StateDicts :
            train_dataloaders(LoaderModule, cuts, sd)
    \/ \E cuts \in CutSets : valid_dataloaders(LoaderModule, cuts)
    \/ \E cuts \in CutSets : test_dataloaders(LoaderModule, cuts)

SpecLoaders == InitLoaders /\ [][NextLoaders]_vars

\* Base seeds and worker ids tried on a directly built _SeedWorkers.
BaseSeeds == (0..MaxBaseSeed) \cup {42}

WorkerIds == 0..MaxWorkerId

\* Namespaces that differ from the defaults in the options that choose what
\* train_dataloaders builds and how many workers a loader starts.
RunArgs ==
    {[DefaultArgs EXCEPT !.enable_spec_aug = aug, !.bucketing_sampler = b,
                         !.num_workers = nw] :
        aug \in BOOLEAN, b \in BOOLEAN, nw \in {1, 3}}

InitRun ==
    /\ args \in {[m \in Modules |-> IF m = LoaderModule THEN a ELSE DefaultArgs] :
                    a \in RunArgs}
    /\ manifestLen = Manifests(SmallDevFirst + DevSlack)
    /\ libDefaultFrameMasks = 10
    /\ InitState

NextRun ==
    \/ train_cuts(LoaderModule)
    \/ \E cuts \in CutSets, sd \in StateDicts :
            train_dataloaders(LoaderModule, cuts, sd)
    \/ \E cuts \in CutSets : valid_dataloaders(LoaderModule, cuts)
    \/ \E cuts \in CutSets : test_dataloaders(LoaderModule, cuts)
    \/ \E l \in Loaders : iter_loader(l)

SpecRun == InitRun /\ [][NextRun]_vars

\* Namespaces that differ from the defaults in the options that reach the
\* training loader's sampler and workers.
SeedArgs ==
    {[DefaultArgs EXCEPT !.bucketing_sampler = b, !.num_workers = nw] :
        b \in BOOLEAN, nw \in {1, 3}}

InitSeed ==
    /\ args \in {[m \in Modules |-> IF m = LoaderModule THEN a ELSE DefaultArgs] :
                    a \in SeedArgs}
    /\ manifestLen = Manifests(SmallDevFirst + DevSlack)
    /\ libDefaultFrameMasks = 10
    /\ InitState

NextSeed ==
    \/ train_cuts(LoaderModule)
    \/ \E cuts \in CutSets, sd \in StateDicts :
            train_dataloaders(LoaderModule, cuts, sd)
    \/ \E l \in Loaders : iter_loader(l)
    \/ \E seed \in BaseSeeds, worker_id \in WorkerIds : call_SeedWorkers(seed, worker_id)

SpecSeed == InitSeed /\ [][NextSeed]_vars

\* ===================================================================== claims
\* The DEV manifest as it is on disk.
DevManifest == ReadManifest(<<DefaultArgs.manifest_dir, "gigaspeech_cuts_DEV_future.jsonl.gz">>)

\* The load_manifest_lazy calls of the last operation.
Loads == {i \in 1..Len(trace) : trace[i].fn = "load_manifest_lazy"}

\* C1: every call of an accessor on a DataModule after the first returns the
\* very CutSet instance (same identity) the first call returned, and makes no
\* load_manifest_lazy call.
C1_AccessorsIdempotent ==
    (ret.op \in Accessors /\ ret.repeat) =>
        /\ ret.value = first[ret.op][ret.self]
        /\ Loads = {}
        /\ trace = <<>>

\* C1 witness: a repeated train_cuts call returned the mux built by the first
\* call while the other DataModule had loaded its own manifests.
C1_Witness ==
    /\ ret.op = "train_cuts" /\ ret.repeat
    /\ ret.value.kind = "mux"
    /\ ret.value = first["train_cuts"][ret.self]
    /\ ncalls = 3
    /\ \E other \in Modules \ {ret.self} : first["train_cuts"][other] # NotCalled

\* C3: with small_dev set dev_cuts returns the first 1000 cuts of the DEV
\* manifest in manifest order (the whole manifest when it has fewer), with
\* small_dev unset it returns the whole manifest, and the former is a prefix
\* of the latter.
C3_SmallDevIsPrefix ==
    ret.op = "dev_cuts" =>
        LET manifest == DevManifest
            cuts == CutsOf(ret.value)
        IN  /\ IF args[ret.self].small_dev
               THEN /\ Len(cuts) = Min(1000, Len(manifest))
                    /\ \A i \in 1..Len(cuts) : cuts[i] = manifest[i]
               ELSE cuts = manifest
            /\ \A small, full \in Modules :
                    (/\ args[small].small_dev /\ ~args[full].small_dev
                     /\ first["dev_cuts"][small] # NotCalled
                     /\ first["dev_cuts"][full] # NotCalled)
                    => LET head == CutsOf(first["dev_cuts"][small])
                           whole == CutsOf(first["dev_cuts"][full])
                       IN  /\ Len(head) <= Len(whole)
                           /\ \A i \in 1..Len(head) : head[i] = whole[i]

\* C3 witness: a DEV manifest of more than 1000 cuts was truncated to 1000 for
\* one DataModule and returned whole for the other.
C3_Witness ==
    /\ ret.op = "dev_cuts" /\ args[ret.self].small_dev
    /\ Len(DevManifest) > 1000
    /\ Len(CutsOf(ret.value)) = 1000
    /\ \E full \in Modules :
            /\ ~args[full].small_dev
            /\ first["dev_cuts"][full] # NotCalled
            /\ Len(CutsOf(first["dev_cuts"][full])) > 1000

\* C4: for subset "M" or "XL" train_cuts returns one mux of exactly three
\* streams, unperturbed, 0.9 and 1.1 in that order, all of the selected
\* subset, with weights 909401 each for "M" and 8277188 each for "XL".
C4_TrainMuxWeights ==
    (ret.op = "train_cuts" /\ args[ret.self].subset \in {"M", "XL"}) =>
        LET v == ret.value
            w == IF args[ret.self].subset = "M" THEN 909401 ELSE 8277188
        IN  /\ v.kind = "mux"
            /\ Len(v.sources) = 3 /\ Len(v.weights) = 3
            /\ \A i \in 1..3 :
                    /\ v.weights[i] = w
                    /\ v.sources[i].kind = "lazy"
                    /\ v.sources[i].path[1] = args[ret.self].manifest_dir
                    /\ ManifestNaming[v.sources[i].path[2]].part = args[ret.self].subset
            /\ [i \in 1..3 |-> ManifestNaming[v.sources[i].path[2]].sp]
                    = <<"1.0", "0.9", "1.1">>
            /\ Cardinality({v.sources[i].id : i \in 1..3}) = 3
            /\ ~ret.repeat => Cardinality(Loads) = 3

\* C4 witness: train_cuts built the "XL" mux.
C4_Witness ==
    /\ ret.op = "train_cuts" /\ args[ret.self].subset = "XL"
    /\ ret.value.kind = "mux"
    /\ ret.value.weights = <<8277188, 8277188, 8277188>>
    /\ Cardinality(Loads) = 3

Passed(obj) == DOMAIN obj.kwargs

\* The dataset and the sampler of a loader.
DatasetOf(dl) == heap[dl.dataset]

SamplerOf(dl) == heap[dl.kwargs.sampler]

\* The transforms a dataset applies: those passed as input_transforms, none
\* when the keyword is not passed.
TransformsOf(ds) ==
    IF "input_transforms" \in Passed(ds) THEN ds.kwargs.input_transforms ELSE <<>>

\* Positions in the last operation's trace of the library calls named fn.
Pos(fn) == {i \in 1..Len(trace) : trace[i].fn = fn}

C5_AugmentationToggle ==
    ret.op = "train_dataloaders" =>
        LET t == DatasetOf(ret.value).kwargs.input_transforms
        IN  IF args[ret.self].enable_spec_aug
            THEN /\ Len(t) = 1 /\ t[1].kind = "DiscretizedInputAugment"
                 /\ Cardinality(Pos("DiscretizedInputAugment")) = 1
            ELSE /\ t = <<>>
                 /\ Pos("DiscretizedInputAugment") = {}

\* C5 witness: a second factory call built a training dataset with no
\* transform while shuffling and bucketing were off.
C5_Witness ==
    /\ ret.op = "train_dataloaders" /\ nfactory = 2
    /\ ~args[ret.self].enable_spec_aug
    /\ ~args[ret.self].shuffle /\ ~args[ret.self].bucketing_sampler
    /\ DatasetOf(ret.value).kwargs.input_transforms = <<>>

C7_RestoreOrder ==
    ret.op = "train_dataloaders" =>
        LET s == SamplerOf(ret.value)
            sd == ret.input.sampler_state_dict
            ds == CHOOSE i \in Pos("Dataset") : TRUE
            sm == CHOOSE i \in Pos("Sampler") : TRUE
            ld == CHOOSE i \in Pos("load_state_dict") : TRUE
            dl == CHOOSE i \in Pos("DataLoader") : TRUE
        IN  /\ Cardinality(Pos("Dataset")) = 1
            /\ Cardinality(Pos("Sampler")) = 1
            /\ Cardinality(Pos("DataLoader")) = 1
            /\ \A i \in Pos("DiscretizedInputAugment") : i < ds
            /\ ds < sm /\ sm < dl
            /\ trace[ds].id = ret.value.dataset
            /\ trace[sm].id = s.id
            /\ trace[dl].id = ret.value.id
            /\ IF sd = None
               THEN /\ Pos("load_state_dict") = {}
                    /\ s.progress = 0
               ELSE /\ Cardinality(Pos("load_state_dict")) = 1
                    /\ sm < ld /\ ld < dl
                    /\ trace[ld].id = s.id
                    /\ s.progress = sd.progress

\* C7 witness: a SimpleCutSampler was restored from a state dict between its
\* construction and the loader's.
C7_Witness ==
    /\ ret.op = "train_dataloaders"
    /\ ret.input.sampler_state_dict # None
    /\ SamplerOf(ret.value).kind = "SimpleCutSampler"
    /\ SamplerOf(ret.value).progress = ret.input.sampler_state_dict.progress
    /\ SamplerOf(ret.value).progress > 0
    /\ Pos("load_state_dict") # {}

\* C8: valid_dataloaders and test_dataloaders build a dataset with no
\* transform and a DynamicBucketingSampler over the given cuts with the
\* configured max_duration and shuffle off; the validation loader has 2
\* workers, the test loader the configured number; both have batch_size None.
C8_ValidTestLoaders ==
    ret.op \in {"valid_dataloaders", "test_dataloaders"} =>
        LET dl == ret.value
            s == SamplerOf(dl)
        IN  /\ DatasetOf(dl).kind = "DiscretizedInputSpeechRecognitionDataset"
            /\ TransformsOf(DatasetOf(dl)) = <<>>
            /\ Pos("DiscretizedInputAugment") = {}
            /\ s.kind = "DynamicBucketingSampler"
            /\ s.cuts = ret.input.cuts
            /\ s.kwargs.max_duration = args[ret.self].max_duration
            /\ s.kwargs.shuffle = FALSE
            /\ s.progress = 0
            /\ dl.kwargs.batch_size = None
            /\ dl.kwargs.num_workers =
                    IF ret.op = "valid_dataloaders" THEN 2 ELSE args[ret.self].num_workers

\* C8 witness: a validation loader with 2 workers and shuffling off was built
\* from a namespace asking for 3 workers, shuffling and augmentation.
C8_Witness ==
    /\ ret.op = "valid_dataloaders"
    /\ args[ret.self].num_workers = 3
    /\ args[ret.self].shuffle /\ args[ret.self].enable_spec_aug
    /\ ret.value.kwargs.num_workers = 2
    /\ ~SamplerOf(ret.value).kwargs.shuffle

\* C9: every factory call returns a loader, a dataset and a sampler that did
\* not exist before the call, leaves every existing object (so every other
\* sampler's progress), the accessor caches and the namespaces as they were;
\* drawing from a loader changes no sampler but its own.
C9_Step ==
    /\ nfactory' = nfactory + 1 =>
            LET dl == ret'.value
            IN  /\ {dl.id, dl.dataset, dl.kwargs.sampler} \cap DOMAIN heap = {}
                /\ {dl.id, dl.dataset, dl.kwargs.sampler} \subseteq DOMAIN heap'
                /\ heap'[dl.id] = dl
                /\ \A l \in Loaders :
                        /\ heap[l].kwargs.sampler # dl.kwargs.sampler
                        /\ heap[l].dataset # dl.dataset
                /\ \A i \in DOMAIN heap : heap'[i] = heap[i]
                /\ cache' = cache /\ args' = args /\ first' = first
    /\ ret'.op = "iter" =>
            /\ \A i \in DOMAIN heap \ {heap[ret'.self].kwargs.sampler} :
                    heap'[i] = heap[i]
            /\ DOMAIN heap' = DOMAIN heap
            /\ cache' = cache /\ args' = args

C9_LoadersNeverCached == [][C9_Step]_vars

\* C9 witness: two loaders were built over the same CutSet with different
\* samplers, and one sampler was advanced while the other stayed at 0.
C9_Witness ==
    /\ ret.op = "iter"
    /\ \E l1, l2 \in Loaders :
            /\ l1 # l2
            /\ SamplerOf(heap[l1]).cuts = SamplerOf(heap[l2]).cuts
            /\ SamplerOf(heap[l1]).id # SamplerOf(heap[l2]).id
            /\ heap[l1].kind = heap[l2].kind
            /\ Passed(heap[l1]) = Passed(heap[l2])
            /\ SamplerOf(heap[l1]).progress = 1
            /\ SamplerOf(heap[l2]).progress = 0
    /\ cache["train_cuts"] # <<>>

====
